---- MODULE Spec2Model ----
(***************************************************************************)
(* Model of the Agent_Artha backend: the /start/ handler add_message       *)
(* (src/app.py), the process-wide FiMCPClient it shares between requests,  *)
(* and the FirebaseManager persistence sink                                *)
(* (src/database/firebase_manager.py).                                     *)
(*                                                                         *)
(* Each request is an asyncio task; a task runs atomically between two     *)
(* awaits on the network, so one action is one such segment of the         *)
(* handler.  Python values are modelled by TLA+ values of one type per     *)
(* variable: str | None is a string with None == "None", dict | None is a   *)
(* record tagged with its Python type.                                     *)
(***************************************************************************)
EXTENDS Integers, Sequences, FiniteSets, TLC

(***************************************************************************)
(* Bounds and input sets                                                   *)
(***************************************************************************)
\* the most events one run_async stream yields
MaxEvents == 2
\* the most parts one event's content carries
MaxParts == 1

\* the handler tasks of the process (concurrent calls of add_message)
Requests == {"r1", "r2"}
UserIds == {"u1", "u2"}
SessionIds == {"", "s1"}
Queries == {"", "q1"}

VARIABLES
    frame,             \* per request: add_message's locals, position, result
                       \* and history (calls, thinking_writes, event, ...)
    mcp_client,        \* the module-level FiMCPClient (app.py:104)
    firebase_manager,  \* the module-level FirebaseManager (app.py:19)
    store,             \* content of the remote realtime database
    wire,              \* HTTP requests sent to the data provider so far
    writes,            \* database operations issued so far
    runs,              \* runner.run_async invocations so far
    uuids              \* number of session ids the session services assigned

vars == <<frame, mcp_client, firebase_manager, store, wire, writes, runs, uuids>>

(***************************************************************************)
(* Python values                                                           *)
(***************************************************************************)
None == "None"
PyNone == [type |-> "NoneType"]
Unbound == [type |-> "unbound"]
Dict(items) == [type |-> "dict", items |-> items]
EmptyDict == Dict(<<>>)
\* truthiness of a dict | None value
Truthy(v) == v.type = "dict" /\ DOMAIN v.items # {}

\* field of a database node that was never set
Absent == "<absent>"
\* {".sv": "timestamp"}: the store's server-clock marker
ServerTimestamp == ".sv:timestamp"

(***************************************************************************)
(* src/app.py: module-level data                                           *)
(***************************************************************************)
initial_state ==
    ("user_id" :> "")
    @@ ("user:raw_data" :> EmptyDict)
    @@ ("behavioral_summary" :> "")
    @@ ("current_financial_goals" :> "")
    @@ ("agent_persona" :> "conscientious and extroverted")

\* the list with its first two datasets exchanged
data_types_reordered ==
    <<"fetch_credit_report", "fetch_net_worth", "fetch_epf_details",
      "fetch_mutual_funds", "fetch_mf_transactions",
      "fetch_bank_transactions", "fetch_stock_transactions">>

data_types ==
    <<"fetch_net_worth", "fetch_credit_report", "fetch_epf_details",
      "fetch_mutual_funds", "fetch_mf_transactions",
      "fetch_bank_transactions", "fetch_stock_transactions">>

DataTypeSet == {data_types[i] : i \in DOMAIN data_types}

Message == [user_id : UserIds, session_id : SessionIds, query : Queries]

(***************************************************************************)
(* src/database/firebase_manager.py                                        *)
(***************************************************************************)
ChatPath(user_id, session_id, key) == <<user_id, session_id, key>>

EmptyNode ==
    [query_user |-> Absent, llm_thinking |-> Absent,
     llm_response |-> Absent, timestamps |-> Absent]

\* a key that does not depend on the push
PushKeyRepeats(n) == "-K" \o ToString(n - n)

\* the key the store generates for its n-th push
PushKey(n) == "-K" \o ToString(n)

\* Reference.push(): a new child with a store-generated key
Push(st, user_id, session_id) ==
    LET key == PushKey(st.pushes + 1)
        path == ChatPath(user_id, session_id, key)
    IN [st EXCEPT !.pushes = @ + 1, !.chats = (path :> EmptyNode) @@ @]

\* Reference.child(field).set(value)
SetField(st, path, field, value) ==
    [st EXCEPT !.chats =
        IF path \in DOMAIN @
        THEN [@ EXCEPT ![path] = [@ EXCEPT ![field] = value]]
        ELSE (path :> [EmptyNode EXCEPT ![field] = value]) @@ @]

\* the first n of a list of <<field, value>> sets, applied in order
RECURSIVE SetFields(_, _, _, _)
SetFields(st, path, sets, n) ==
    IF n = 0 \/ sets = <<>> THEN st
    ELSE SetFields(SetField(st, path, sets[1][1], sets[1][2]),
                   path, Tail(sets), n - 1)

\* the sets of a write that also resets llm_thinking
ChatSetsWithThinking(chat_data) ==
    <<  <<"llm_thinking", "">>,
        <<"query_user", chat_data.query_user>>,
        <<"llm_response", chat_data.llm_response>>,
        <<"timestamps", chat_data.timestamps>>  >>

\* the three sets with query and response exchanged
ChatSetsSwapped(chat_data) ==
    <<  <<"query_user", chat_data.llm_response>>,
        <<"llm_response", chat_data.query_user>>,
        <<"timestamps", chat_data.timestamps>>  >>

\* the three fields save_chat_history and save_chat_history2 set, in order
ChatSets(chat_data) ==
    <<  <<"query_user", chat_data.query_user>>,
        <<"llm_response", chat_data.llm_response>>,
        <<"timestamps", chat_data.timestamps>>  >>

\* a store operation issued by a FirebaseManager method, and whether it
\* succeeded
Op(by, op, path, field, ok) ==
    [by |-> by, op |-> op, path |-> path, field |-> field, ok |-> ok]

\* the sets of a list that were issued when the first n succeed: those n and
\* the one after them, which raises
IssuedSets(by, path, sets, n) ==
    {Op(by, "set", path, sets[i][1], i <= n) : i \in 1..Len(sets) \cap 1..(n + 1)}

\* the exception of a store operation
StoreError == "store operation failed"

\* a try block that lets the exception through
TryReraises(result) == result

\* try: ... except Exception as e: logging.error(...): the method's result
\* when its body ended as result says; the exception is logged, not raised
Try(result) == [result EXCEPT !.raised = FALSE]

\* ok: how many store operations succeed before one raises (the try block
\* swallows the exception); 4 means none raised.
save_chat_history(fm, st, user_id, session_id, chat_data, ok) ==
    IF ~fm.db THEN [store |-> st, ret |-> None, issued |-> {}, raised |-> FALSE]
    ELSE IF ok = 0
    THEN Try([store |-> st, ret |-> None,
              issued |-> {Op("save_chat_history", "push",
                             ChatPath(user_id, session_id, None), None, FALSE)},
              raised |-> TRUE])
    ELSE LET pushed == Push(st, user_id, session_id)
             key == PushKey(pushed.pushes)
             path == ChatPath(user_id, session_id, key)
         IN Try([store |-> SetFields(pushed, path, ChatSets(chat_data), ok - 1),
                 ret |-> IF ok = 4 THEN key ELSE None,
                 issued |-> {Op("save_chat_history", "push", path, None, TRUE)}
                            \cup IssuedSets("save_chat_history", path,
                                            ChatSets(chat_data), ok - 1),
                 raised |-> ok < 4])

\* ok: how many of the three sets succeed before one raises
save_chat_history2(fm, st, user_id, session_id, chat_data, key, ok) ==
    IF ~fm.db THEN [store |-> st, issued |-> {}, raised |-> FALSE]
    ELSE IF key = None THEN [store |-> st, issued |-> {}, raised |-> FALSE]
    ELSE LET path == ChatPath(user_id, session_id, key)
         IN Try([store |-> SetFields(st, path, ChatSets(chat_data), ok),
                 issued |-> IssuedSets("save_chat_history2", path,
                                       ChatSets(chat_data), ok),
                 raised |-> ok < 3])

\* ok: 1 when the set succeeds, 0 when it raises
update_llm_thinking(fm, st, user_id, session_id, key, thinking_text, ok) ==
    IF ~fm.db THEN [store |-> st, issued |-> {}, raised |-> FALSE]
    ELSE IF key = None THEN [store |-> st, issued |-> {}, raised |-> FALSE]
    ELSE LET path == ChatPath(user_id, session_id, key)
             sets == << <<"llm_thinking", thinking_text>> >>
         IN Try([store |-> SetFields(st, path, sets, ok),
                 issued |-> IssuedSets("update_llm_thinking", path, sets, ok),
                 raised |-> ok < 1])

\* ok: 1 when the push succeeds, 0 when it raises
save_new_session(fm, st, user_id, session_id, ok) ==
    IF ~fm.db THEN [store |-> st, issued |-> {}, raised |-> FALSE]
    ELSE IF ok = 0
    THEN Try([store |-> st,
              issued |-> {Op("save_new_session", "push",
                             ChatPath(user_id, session_id, None), None, FALSE)},
              raised |-> TRUE])
    ELSE LET pushed == Push(st, user_id, session_id)
         IN Try([store |-> pushed,
                 issued |-> {Op("save_new_session", "push",
                                ChatPath(user_id, session_id,
                                         PushKey(pushed.pushes)), None, TRUE)},
                 raised |-> FALSE])

(***************************************************************************)
(* google.adk InMemorySessionService, as the code uses it: a service is    *)
(* the set of sessions it stores                                           *)
(***************************************************************************)
\* the n-th session id a session service assigns (a fresh uuid)
Uuid(n) == "uuid" \o ToString(n)

Session(app_name, user_id, id, state) ==
    [type |-> "Session", app_name |-> app_name, user_id |-> user_id,
     id |-> id, state |-> state]

get_session(service, app_name, user_id, session_id) ==
    LET found == {s \in service : /\ s.app_name = app_name
                                  /\ s.user_id = user_id
                                  /\ s.id = session_id}
    IN IF found = {} THEN PyNone ELSE CHOOSE s \in found : TRUE

\* created = FALSE: the service hands back no session
create_session(service, app_name, user_id, state, n, created) ==
    IF created
    THEN LET s == Session(app_name, user_id, Uuid(n), state)
         IN [service |-> service \cup {s}, session |-> s]
    ELSE [service |-> service, session |-> PyNone]

\* dict.get(key, default)
Get(d, key, default) == IF key \in DOMAIN d THEN d[key] ELSE default

\* the four aggregate fields, written under users/{user_id}
save_financial_state(fm, st, user_id, session_id) ==
    IF ~fm.db THEN [store |-> st, issued |-> {}, raised |-> FALSE]
    ELSE LET session == get_session(fm.session_service, "artha", user_id,
                                    session_id)
         IN IF session = PyNone
            THEN Try([store |-> st, issued |-> {}, raised |-> FALSE])
            ELSE LET fields ==
                         ("raw_data" :> Get(session.state, "raw_data", EmptyDict))
                         @@ ("behavioral_summary" :>
                                Get(session.state, "behavioral_summary", ""))
                         @@ ("current_financial_goals" :>
                                Get(session.state, "current_financial_goals", ""))
                         @@ ("agent_persona" :>
                                Get(session.state, "agent_persona", ""))
                 IN Try([store |-> [st EXCEPT !.users =
                                   [f \in {<<user_id, k>> : k \in DOMAIN fields}
                                      |-> fields[f[2]]] @@ @],
                         issued |-> {Op("save_financial_state", "set",
                                        <<user_id>>, k, TRUE) :
                                        k \in DOMAIN fields},
                         raised |-> FALSE])

(***************************************************************************)
(* Text: an event part's text is a sequence of characters                  *)
(***************************************************************************)
Whitespace == {" ", "\n", "\t"}

\* no text counts as blank
IsSpaceNever(text) == FALSE

\* str.isspace(): at least one character and all of them whitespace
IsSpace(text) == text # <<>> /\ \A i \in DOMAIN text : text[i] \in Whitespace

RECURSIVE LStrip(_)
LStrip(text) ==
    IF text # <<>> /\ Head(text) \in Whitespace THEN LStrip(Tail(text)) ELSE text

RECURSIVE RStrip(_)
RStrip(text) ==
    IF text # <<>> /\ text[Len(text)] \in Whitespace
    THEN RStrip(SubSeq(text, 1, Len(text) - 1))
    ELSE text

\* str.strip()
Strip(text) == RStrip(LStrip(text))

\* the Python string of a character sequence
RECURSIVE Str(_)
Str(text) == IF text = <<>> THEN "" ELSE Head(text) \o Str(Tail(text))

\* "\n".join(strings)
RECURSIVE Join(_)
Join(strings) ==
    IF strings = <<>> THEN ""
    ELSE IF Len(strings) = 1 THEN strings[1]
    ELSE strings[1] \o "\n" \o Join(Tail(strings))

(***************************************************************************)
(* Agent runtime events                                                    *)
(***************************************************************************)
\* a part: has_text = FALSE is a part without a text attribute
Part(has_text, text) == [has_text |-> has_text, text |-> text]
Event(parts, is_final) == [parts |-> parts, is_final |-> is_final]

PartTexts == {<<>>, <<" ">>, <<"a">>, <<" ", "b", " ">>}
Parts == {Part(FALSE, <<>>)} \cup {Part(TRUE, t) : t \in PartTexts}

\* every event of at most MaxParts parts (content None is parts = <<>>)
Events ==
    {Event(ps, f) : ps \in UNION {[1..n -> Parts] : n \in 0..MaxParts},
                    f \in BOOLEAN}

(***************************************************************************)
(* src/app.py: FiMCPClient                                                 *)
(***************************************************************************)
McpSessionId(session_id) == "mcp-session-" \o session_id

\* an HTTP request to the data provider, by the request task that sent it
Http(r, kind, mcp_session_id, arg) ==
    [req |-> r, kind |-> kind, mcp_session_id |-> mcp_session_id, arg |-> arg]

\* the decoded payload of a successful tool call
Payload(tool_name) == "data:" \o tool_name

(***************************************************************************)
(* src/app.py: add_message, its results                                    *)
(***************************************************************************)
Pending == [kind |-> "pending"]
Return(body) == [kind |-> "return", body |-> body]
\* raise HTTPException(status_code=500, detail=str(e))
HTTPException(detail) ==
    [kind |-> "HTTPException", status_code |-> 500, detail |-> detail]
\* str() of an HTTPException
StrHTTPException(status_code, detail) == ToString(status_code) \o ": " \o detail

NoBody == [status |-> None, message |-> None, session_id |-> None]
Body(status, message, session_id) ==
    [status |-> status, message |-> message, session_id |-> session_id]

NoPrompt == [type |-> "NoneType"]

IdleFrame ==
    [pc |-> "idle",
     message |-> [user_id |-> "", session_id |-> "", query |-> ""],
     key |-> None,
     session_service |-> {},
     session |-> PyNone,
     financial_data |-> Unbound,
     fetched |-> <<>>,
     calls |-> <<>>,
     probe_status |-> None,
     login_status |-> 0,
     after |-> {},
     raw_data |-> PyNone,
     enriched_query |-> NoPrompt,
     accumulated_thinking |-> <<>>,
     thinking_writes |-> <<>>,
     final_response_text |-> None,
     events |-> 0,
     event |-> [parts |-> <<>>, is_final |-> FALSE],
     run_raised |-> FALSE,
     result |-> Pending]

Init ==
    /\ frame = [r \in Requests |-> IdleFrame]
    /\ mcp_client = [session_id |-> None, authenticated |-> FALSE]
    /\ firebase_manager \in [db : BOOLEAN, session_service : {{}}]
    /\ store = [chats |-> <<>>, users |-> <<>>, pushes |-> 0]
    /\ wire = {}
    /\ writes = {}
    /\ runs = {}
    /\ uuids = 0

\* the operations of one call, tagged with the request that issued them
Issued(r, ops) ==
    {[req |-> r, by |-> o.by, op |-> o.op, path |-> o.path,
      field |-> o.field, ok |-> o.ok] : o \in ops}

Done(f, result) == [f EXCEPT !.pc = "done", !.result = result]

\* the turn record also opened for a query without a session_id
HasTurnAnySession(message) == message.query # ""

\* line 159: the request opens a turn record
HasTurn(message) == message.query # "" /\ message.session_id # ""

\* every request with an empty query only bootstraps a session
BootstrapOnlyEmptyQuery(message) == message.query = ""

\* line 194: the request only bootstraps a session
BootstrapOnly(message) == message.query = "" /\ message.session_id = ""

\* lines 157-170: the turn-start write
Start(r, message, ok) ==
    /\ frame[r].pc = "idle"
    /\ LET saved ==
               IF HasTurn(message)
               THEN save_chat_history(
                        firebase_manager, store, message.user_id,
                        message.session_id,
                        [query_user |-> message.query, llm_thinking |-> "",
                         llm_response |-> "", timestamps |-> ServerTimestamp],
                        ok)
               ELSE [store |-> store, ret |-> None, issued |-> {},
                     raised |-> FALSE]
           f == [frame[r] EXCEPT !.after = {q \in Requests :
                                              frame[q].pc = "done"},
                                 !.message = message]
       IN /\ frame' = [frame EXCEPT ![r] =
                          IF saved.raised
                          THEN \* line 262: the outer handler
                               Done(f, HTTPException(StoreError))
                          ELSE [f EXCEPT !.pc = "get_session",
                                         !.key = saved.ret]]
          /\ store' = saved.store
          /\ writes' = writes \cup Issued(r, saved.issued)
    /\ UNCHANGED <<mcp_client, firebase_manager, wire, runs, uuids>>

\* json.dumps of one value: None is null, a string is quoted
JsonValue(v) == IF v = None THEN "null" ELSE "\"" \o v \o "\""

\* json.dumps(d, indent=2) of the first n keys of a key list
RECURSIVE JsonItems(_, _)
JsonItems(items, keys) ==
    IF keys = <<>> THEN ""
    ELSE "\n  \"" \o keys[1] \o "\": " \o JsonValue(items[keys[1]])
         \o (IF Len(keys) > 1 THEN "," ELSE "\n")
         \o JsonItems(items, Tail(keys))

\* json.dumps(raw_data, indent=2) of a dict keyed by dataset names
JsonDumps(d) ==
    "{" \o JsonItems(d.items,
                     SelectSeq(data_types, LAMBDA k : k \in DOMAIN d.items))
        \o "}"

\* lines 212-222: the f-string, by its five holes
EnrichedQuery(query, raw_data, behavioral_summary, goals, persona) ==
    [type |-> "str",
     user_query |-> query,
     raw_financial_data |->
        IF Truthy(raw_data) THEN JsonDumps(raw_data) ELSE "No data available",
     behavioral_summary |-> behavioral_summary,
     current_goals |-> goals,
     user_persona |-> persona]

\* an invocation of runner.run_async
Run(r, user_id, session_id, new_message) ==
    [req |-> r, user_id |-> user_id, session_id |-> session_id,
     new_message |-> new_message]

\* lines 197-228, from the frame f the bootstrap left: the next frame and
\* the run_async invocation made, if any
Ready(r, f) ==
    IF f.financial_data = Unbound
    THEN \* line 199 reads a local that was never assigned: UnboundLocalError
         [frame |-> Done(f, HTTPException(
                        "cannot access local variable 'financial_data'")),
          run |-> {}]
    ELSE LET raw_data ==
                 IF f.financial_data = PyNone
                 THEN Get(f.session.state, "user:raw_data", EmptyDict)
                 ELSE PyNone
             state == [f.session.state EXCEPT
                          !["user:raw_data"] = f.financial_data]
             enriched_query ==
                 EnrichedQuery(f.message.query, raw_data,
                               Get(state, "behavioral_summary", ""),
                               Get(state, "current_financial_goals", ""),
                               Get(state, "agent_persona", ""))
         IN [frame |-> [f EXCEPT !.pc = "stream",
                                 !.raw_data = raw_data,
                                 !.session = [@ EXCEPT !.state = state],
                                 !.enriched_query = enriched_query],
             run |-> {Run(r, f.message.user_id, f.session.id, enriched_query)}]

\* lines 119-122 and 42-61: get_financial_data up to its first await
EnterGetFinancialData(r, f, client, phone_number, session_id) ==
    IF ~client.authenticated
    THEN LET c == [client EXCEPT !.session_id = McpSessionId(session_id)]
         IN [frame |-> [f EXCEPT !.pc = "probe"],
             client |-> c,
             sent |-> {Http(r, "probe", c.session_id, "fetch_bank_transactions")}]
    ELSE [frame |-> [f EXCEPT !.pc = "call_tool", !.fetched = <<>>],
          client |-> client,
          sent |-> {}]

\* line 171: each request builds its own, empty, session service
InMemorySessionService == {}

\* lines 171-193: session lookup, session creation, start of the snapshot
Bootstrap(r, created) ==
    /\ frame[r].pc = "get_session"
    /\ LET f0 == [frame[r] EXCEPT !.session_service = InMemorySessionService]
           found == get_session(f0.session_service, "artha",
                                f0.message.user_id, f0.message.session_id)
       IN IF found # PyNone
          THEN LET rdy == Ready(r, [f0 EXCEPT !.session = found])
               IN /\ frame' = [frame EXCEPT ![r] = rdy.frame]
                  /\ runs' = runs \cup rdy.run
                  /\ UNCHANGED <<mcp_client, wire, uuids>>
          ELSE LET c == create_session(f0.session_service, "artha",
                                       f0.message.user_id, initial_state,
                                       uuids + 1, created)
                   f1 == [f0 EXCEPT !.session_service = c.service,
                                    !.session = c.session]
               IN IF c.session = PyNone
                  THEN /\ frame' = [frame EXCEPT ![r] =
                                      Done(f1, HTTPException(StrHTTPException(
                                          500, "Session could not be Created!")))]
                       /\ UNCHANGED <<mcp_client, wire, runs, uuids>>
                  ELSE LET g == EnterGetFinancialData(
                                    r, f1, mcp_client, f1.message.user_id,
                                    f1.session.id)
                       IN /\ frame' = [frame EXCEPT ![r] = g.frame]
                          /\ mcp_client' = g.client
                          /\ wire' = wire \cup g.sent
                          /\ uuids' = uuids + 1
                          /\ UNCHANGED runs
    /\ UNCHANGED <<firebase_manager, store, writes>>

\* the login posted whatever the probe answered
ProbeResponseUnchecked(r, status) ==
    /\ frame[r].pc = "probe"
    /\ frame' = [frame EXCEPT ![r] =
                    [@ EXCEPT !.pc = "login", !.probe_status = status]]
    /\ wire' = wire \cup {Http(r, "login", mcp_client.session_id,
                               frame[r].message.user_id)}
    /\ UNCHANGED <<mcp_client, firebase_manager, store, writes, runs, uuids>>

\* lines 62-72: the probe's response; a login is posted only on login_required
ProbeResponse(r, status) ==
    /\ frame[r].pc = "probe"
    /\ IF status # "login_required"
       THEN /\ frame' = [frame EXCEPT ![r] =
                            Done([@ EXCEPT !.probe_status = status],
                                 HTTPException("Authentication flow error"))]
            /\ UNCHANGED wire
       ELSE /\ frame' = [frame EXCEPT ![r] =
                            [@ EXCEPT !.pc = "login", !.probe_status = status]]
            /\ wire' = wire \cup {Http(r, "login", mcp_client.session_id,
                                       frame[r].message.user_id)}
    /\ UNCHANGED <<mcp_client, firebase_manager, store, writes, runs, uuids>>

\* a rejected login that returns instead of raising
LoginResponseReturns(r, status) ==
    /\ frame[r].pc = "login"
    /\ mcp_client' = [mcp_client EXCEPT !.authenticated = @ \/ status = 200]
    /\ frame' = [frame EXCEPT ![r] =
                    [@ EXCEPT !.pc = "call_tool", !.fetched = <<>>,
                              !.login_status = status]]
    /\ UNCHANGED <<firebase_manager, store, wire, writes, runs, uuids>>

\* lines 73-78: the login's response
LoginResponse(r, status) ==
    /\ frame[r].pc = "login"
    /\ IF status = 200
       THEN /\ mcp_client' = [mcp_client EXCEPT !.authenticated = TRUE]
            /\ frame' = [frame EXCEPT ![r] =
                            [@ EXCEPT !.pc = "call_tool", !.fetched = <<>>,
                                      !.login_status = status]]
       ELSE /\ frame' = [frame EXCEPT ![r] =
                            Done([@ EXCEPT !.login_status = status],
                                 HTTPException("Login failed: "
                                               \o ToString(status)))]
            /\ UNCHANGED mcp_client
    /\ UNCHANGED <<firebase_manager, store, wire, writes, runs, uuids>>

\* lines 80-102: one call_tool; raises = the request or its decoding fails
call_tool(r, client, tool_name, raises) ==
    IF ~client.authenticated
    THEN [raised |-> TRUE, data |-> None, sent |-> {}]
    ELSE [raised |-> raises,
          data |-> IF raises THEN None ELSE Payload(tool_name),
          sent |-> {Http(r, "call_tool", client.session_id, tool_name)}]

\* lines 135-141: one iteration of the loop over data_types; the provider
\* fails only on the datasets in flaky
CallTool(r, raises, flaky) ==
    /\ frame[r].pc = "call_tool"
    /\ Len(frame[r].fetched) < Len(data_types)
    /\ raises => data_types[Len(frame[r].fetched) + 1] \in flaky
    /\ LET data_type == data_types[Len(frame[r].fetched) + 1]
           call == call_tool(r, mcp_client, data_type, raises)
       IN /\ frame' = [frame EXCEPT ![r] =
                [@ EXCEPT !.fetched =
                              Append(@, IF call.raised THEN None ELSE call.data),
                          !.calls =
                              Append(@, [tool_name |-> data_type,
                                         raised |-> call.raised])]]
          /\ wire' = wire \cup call.sent
    /\ UNCHANGED <<mcp_client, firebase_manager, store, writes, runs, uuids>>

\* the dict without the datasets whose call raised
FinancialDataDropsFailed(fetched) ==
    Dict([k \in {data_types[i] : i \in {j \in DOMAIN fetched : fetched[j] # None}}
            |-> fetched[CHOOSE i \in DOMAIN fetched : data_types[i] = k]])

\* the dict get_financial_data returns: one entry per dataset fetched
FinancialData(fetched) ==
    Dict([k \in {data_types[i] : i \in DOMAIN fetched} |->
            fetched[CHOOSE i \in DOMAIN fetched : data_types[i] = k]])

\* the result echoing the caller's session_id
NewSessionResultEchoes(message, session) ==
    Return(Body("success", "New session created.", message.session_id))

\* line 196
NewSessionResult(message, session) ==
    Return(Body("success", "New session created.", session.id))

\* lines 143 and 193-228: the snapshot is returned; a bootstrap-only request
\* ends here, any other goes on to the agent
Fetched(r, ok) ==
    /\ frame[r].pc = "call_tool"
    /\ Len(frame[r].fetched) = Len(data_types)
    /\ LET f == [frame[r] EXCEPT
                    !.financial_data = FinancialData(frame[r].fetched)]
       IN IF BootstrapOnly(f.message)
          THEN LET saved == save_new_session(firebase_manager, store,
                                             f.message.user_id, f.session.id, ok)
               IN /\ frame' = [frame EXCEPT ![r] =
                        IF saved.raised
                        THEN Done(f, HTTPException(StoreError))
                        ELSE Done(f, NewSessionResult(f.message, f.session))]
                  /\ store' = saved.store
                  /\ writes' = writes \cup Issued(r, saved.issued)
                  /\ UNCHANGED runs
          ELSE LET rdy == Ready(r, f)
               IN /\ frame' = [frame EXCEPT ![r] = rdy.frame]
                  /\ runs' = runs \cup rdy.run
                  /\ UNCHANGED <<store, writes>>
    /\ UNCHANGED <<mcp_client, firebase_manager, wire, uuids>>

\* the text taken from an event whether or not it is marked final
process_agent_response_any(event) ==
    IF /\ event.parts # <<>>
       /\ event.parts[1].has_text
       /\ event.parts[1].text # <<>>
    THEN Str(Strip(event.parts[1].text))
    ELSE None

\* lines 106-117
process_agent_response(event) ==
    IF /\ event.is_final
       /\ event.parts # <<>>
       /\ event.parts[1].has_text
       /\ event.parts[1].text # <<>>
    THEN Str(Strip(event.parts[1].text))
    ELSE None

\* lines 231-240: the loop over one event's parts.  acc is
\* accumulated_thinking; oks[i] = 1 when the update for part i succeeds
RECURSIVE ConsumeParts(_, _, _, _, _, _, _, _)
ConsumeParts(parts, i, oks, fm, message, key, acc, st) ==
    IF i > Len(parts)
    THEN [acc |-> acc, store |-> st, issued |-> {}, updates |-> <<>>,
          raised |-> FALSE]
    ELSE LET part == parts[i]
         IN IF part.has_text /\ part.text # <<>> /\ ~IsSpace(part.text)
            THEN LET acc1 == Append(acc, Str(Strip(part.text)))
                     combined_thinking == Join(acc1)
                     up == IF key # None /\ key # ""
                           THEN update_llm_thinking(
                                    fm, st, message.user_id, message.session_id,
                                    key, combined_thinking, oks[i])
                           ELSE [store |-> st, issued |-> {}, raised |-> FALSE]
                     \* an exception of the update leaves the loop
                     rest == IF up.raised
                             THEN [acc |-> acc1, store |-> up.store,
                                   issued |-> {}, updates |-> <<>>,
                                   raised |-> TRUE]
                             ELSE ConsumeParts(parts, i + 1, oks, fm, message,
                                               key, acc1, up.store)
                 IN [acc |-> rest.acc, store |-> rest.store,
                     issued |-> up.issued \cup rest.issued,
                     updates |-> (IF up.issued = {} THEN <<>>
                                  ELSE <<combined_thinking>>) \o rest.updates,
                     raised |-> rest.raised]
            ELSE ConsumeParts(parts, i + 1, oks, fm, message, key, acc, st)

\* lines 228-244: one event of the run_async stream; with trace the event
\* consumed is remembered in the history field event
StreamEvent(r, event, oks, trace) ==
    /\ frame[r].pc = "stream"
    /\ frame[r].events < MaxEvents
    /\ LET f == frame[r]
           consumed == ConsumeParts(event.parts, 1, oks, firebase_manager,
                                    f.message, f.key, f.accumulated_thinking,
                                    store)
           response == process_agent_response(event)
           g == [f EXCEPT !.accumulated_thinking = consumed.acc,
                          !.thinking_writes = @ \o consumed.updates,
                          !.events = @ + 1,
                          !.event = IF trace THEN event ELSE @]
       IN /\ frame' = [frame EXCEPT ![r] =
                IF consumed.raised
                THEN \* lines 260-261: the inner handler
                     Done(g, Return(NoBody))
                ELSE [g EXCEPT !.final_response_text =
                                  IF response # None /\ response # ""
                                  THEN response ELSE @]]
          /\ store' = consumed.store
          /\ writes' = writes \cup Issued(r, consumed.issued)
    /\ UNCHANGED <<mcp_client, firebase_manager, wire, runs, uuids>>

\* lines 246-259: the stream is exhausted; ok = how many sets of the final
\* write succeed
StreamEnd(r, ok) ==
    /\ frame[r].pc = "stream"
    /\ LET f == frame[r]
           chat_data == [query_user |-> f.message.query,
                         llm_response |-> f.final_response_text,
                         timestamps |-> ServerTimestamp]
           saved == save_chat_history2(firebase_manager, store,
                                       f.message.user_id, f.message.session_id,
                                       chat_data, f.key, ok)
           state == IF saved.raised
                    THEN [store |-> saved.store, issued |-> {},
                          raised |-> TRUE]
                    ELSE save_financial_state(firebase_manager, saved.store,
                                              f.message.user_id,
                                              f.message.session_id)
       IN /\ frame' = [frame EXCEPT ![r] =
                IF state.raised
                THEN \* lines 260-261: the inner handler
                     Done(f, Return(NoBody))
                ELSE Done(f, Return(
                    IF f.final_response_text # None /\ f.final_response_text # ""
                    THEN Body("success", "Message added successfully.", None)
                    ELSE Body("error", "I apologize, but I couldn't generate insights at the moment.", None)))]
          /\ store' = state.store
          /\ writes' = writes \cup Issued(r, saved.issued \cup state.issued)
    /\ UNCHANGED <<mcp_client, firebase_manager, wire, runs, uuids>>

\* lines 260-261: run_async raises while the stream is consumed; the handler
\* prints the error and falls off its end, returning None
StreamRaise(r) ==
    /\ frame[r].pc = "stream"
    /\ frame[r].events < MaxEvents
    /\ frame' = [frame EXCEPT ![r] =
                    Done([@ EXCEPT !.run_raised = TRUE], Return(NoBody))]
    /\ UNCHANGED <<mcp_client, firebase_manager, store, wire, writes, runs, uuids>>

(***************************************************************************)
(* Specifications                                                          *)
(***************************************************************************)
ProbeStatuses == {"login_required", "success"}
LoginStatuses == {200, 401}

\* One step of one of the requests R, in an environment given by: the
\* messages the clients send, the datasets the provider may fail on, the
\* events the agent may emit, and the points at which a store call may fail
\* (oks4: of the turn-start write, oks3: of the final write, oks1: of a push
\* or of one thinking update); trace: the event consumed is remembered.
Step(R, messages, flaky, events, oks4, oks3, oks1, trace) ==
    \E r \in R :
        \/ \E message \in messages, ok \in oks4 : Start(r, message, ok)
        \/ \E created \in BOOLEAN : Bootstrap(r, created)
        \/ \E status \in ProbeStatuses : ProbeResponse(r, status)
        \/ \E status \in LoginStatuses : LoginResponse(r, status)
        \/ \E raises \in BOOLEAN : CallTool(r, raises, flaky)
        \/ \E ok \in oks1 : Fetched(r, ok)
        \/ \E event \in events :
              \E oks \in [1..Len(event.parts) -> oks1] :
                  StreamEvent(r, event, oks, trace)
        \/ \E ok \in oks3 : StreamEnd(r, ok)
        \/ StreamRaise(r)

\* Spec: the requests run concurrently; the provider answers every dataset
\* call, the agent emits LeanEvents, a store call succeeds or fails whole.
LeanEvents ==
    {Event(<< Part(TRUE, <<" ", "b", " ">>) >>, TRUE)}

Next == Step(Requests, Message, {}, LeanEvents, {0, 4}, {0, 3}, {0, 1}, FALSE)

Spec == Init /\ [][Next]_vars

\* SpecSnapshot: one request; any subset of the seven dataset calls fails.
NextSnapshot ==
    Step({"r1"}, Message, DataTypeSet, LeanEvents, {4}, {3}, {1}, FALSE)

SpecSnapshot == Init /\ [][NextSnapshot]_vars

\* SpecTurn: one request of one user; the agent emits any events, any store
\* operation fails; only the first and the last dataset may fail.
FlakyTools == {"fetch_net_worth", "fetch_stock_transactions"}

NextTurn ==
    Step({"r1"}, {m \in Message : m.user_id = "u1"}, FlakyTools, Events,
         0..4, 0..3, {0, 1}, FALSE)

SpecTurn == Init /\ [][NextTurn]_vars

\* SpecStream: one request with a query; the agent emits any events, each
\* remembered while the next is awaited; the provider answers every call and
\* the store, when initialised, performs every operation.
NextStream ==
    Step({"r1"}, {m \in Message : m.user_id = "u1" /\ m.query = "q1"},
         {}, Events, {4}, {3}, {1}, TRUE)

SpecStream == Init /\ [][NextStream]_vars

\* SpecResume: a client bootstraps a session and asks its query under the
\* session id it was given (the first id a session service assigns); the
\* provider answers every call and the store performs every operation.
ResumeMessages ==
    {[user_id |-> "u1", session_id |-> "", query |-> ""],
     [user_id |-> "u1", session_id |-> Uuid(1), query |-> "q1"]}

NextResume ==
    Step(Requests, ResumeMessages, {}, LeanEvents, {4}, {3}, {1}, FALSE)

SpecResume == Init /\ [][NextResume]_vars

(***************************************************************************)
(* Properties                                                              *)
(***************************************************************************)
Started(r) == frame[r].pc # "idle"
Finished(r) == frame[r].pc = "done"
\* get_financial_data has returned its dict to add_message
Returned(r) == frame[r].financial_data.type = "dict"
RunsOf(r) == {run \in runs : run.req = r}
SentBy(r, kind) == {h \in wire : h.req = r /\ h.kind = kind}
WritesOf(r) == {w \in writes : w.req = r}

SevenDatasets ==
    {"fetch_net_worth", "fetch_credit_report", "fetch_epf_details",
     "fetch_mutual_funds", "fetch_mf_transactions", "fetch_bank_transactions",
     "fetch_stock_transactions"}

\* C1: whatever subset of the seven dataset calls raises, once the client is
\* authenticated get_financial_data returns (it does not raise) a dict whose
\* keys are exactly the seven dataset names, each mapped to its payload when
\* its call succeeded and to None when its call raised.
C1_SnapshotComplete ==
    \A r \in Requests :
        /\ (Len(frame[r].calls) = Len(data_types) /\ frame[r].pc # "call_tool")
              => Returned(r)
        /\ Returned(r) =>
              LET fd == frame[r].financial_data.items
              IN /\ DOMAIN fd = SevenDatasets
                 /\ Len(frame[r].calls) = 7
                 /\ \A i \in 1..7 :
                       LET call == frame[r].calls[i]
                       IN fd[call.tool_name] =
                             IF call.raised THEN None
                             ELSE Payload(call.tool_name)

\* a snapshot was returned in which some calls raised and some succeeded
C1_Witness ==
    \E r \in Requests :
        /\ Returned(r)
        /\ \E i, j \in 1..7 :
              frame[r].calls[i].raised /\ ~frame[r].calls[j].raised

\* C2: when the probe's response does not report login_required,
\* authenticate raises (the request ends in an error), the request sends
\* nothing to the login endpoint, and the step that handles the response
\* leaves the authenticated flag as it was: false stays false.
C2_ProbeShortCircuit ==
    [][\A r \in Requests :
          frame'[r].probe_status \notin {None, "login_required"} =>
              /\ frame'[r].pc = "done"
              /\ frame'[r].result.kind = "HTTPException"
              /\ frame'[r].result.detail = "Authentication flow error"
              /\ \A h \in wire' : ~(h.req = r /\ h.kind = "login")
              /\ frame[r].probe_status = None =>
                    /\ mcp_client'.authenticated = mcp_client.authenticated
                    /\ wire' = wire]_vars

\* a probe was answered with something else than login_required while the
\* flag was still false
C2_Witness ==
    \E r \in Requests :
        /\ frame[r].probe_status \notin {None, "login_required"}
        /\ ~mcp_client.authenticated

\* session creation and authentication did not fail for r
BootstrapSucceeded(r) ==
    /\ frame[r].session # PyNone
    /\ frame[r].probe_status \in {None, "login_required"}
    /\ frame[r].login_status \in {0, 200}

\* C3: a request with query = "" and session_id = "" never invokes
\* runner.run_async, and when session creation and authentication succeed
\* it returns the "New session created." success result with the id the
\* session service assigned to the session it created.
C3_BootstrapOnly ==
    \A r \in Requests :
        (Started(r) /\ frame[r].message.query = ""
                    /\ frame[r].message.session_id = "") =>
            /\ RunsOf(r) = {}
            /\ frame[r].pc # "stream"
            /\ (Finished(r) /\ BootstrapSucceeded(r)) =>
                  /\ frame[r].result.kind = "return"
                  /\ frame[r].result.body.status = "success"
                  /\ frame[r].result.body.message = "New session created."
                  /\ frame[r].result.body.session_id
                        \in {s.id : s \in frame[r].session_service}
                  /\ frame[r].result.body.session_id = frame[r].session.id

\* a bootstrap-only request returned its new session
C3_Witness ==
    \E r \in Requests :
        /\ Finished(r)
        /\ frame[r].message.query = "" /\ frame[r].message.session_id = ""
        /\ frame[r].result.kind = "return"
        /\ frame[r].result.body.session_id = frame[r].session.id

\* the turn-start pushes of r, and the keys they allocated
TurnPushes(r) ==
    {w \in WritesOf(r) : w.by = "save_chat_history" /\ w.op = "push"}
TurnKeys(r) == {w.path[3] : w \in {x \in TurnPushes(r) : x.ok}}
ChatFields == {"query_user", "llm_response", "timestamps"}
\* the fields a method of r set successfully
FieldsSet(r, by) ==
    {w.field : w \in {x \in WritesOf(r) : x.by = by /\ x.op = "set" /\ x.ok}}
\* the chat records r wrote to with its turn methods
TurnRecords(r) ==
    {w.path : w \in {x \in WritesOf(r) :
                        /\ x.ok
                        /\ x.by \in {"save_chat_history", "update_llm_thinking",
                                     "save_chat_history2"}}}

\* C4, as claimed: every request with a non-empty query, whatever its
\* session_id, allocates exactly one turn key when it starts, and its final
\* write targets that key.
C4_Original ==
    \A r \in Requests :
        (Started(r) /\ frame[r].message.query # "") =>
            /\ Cardinality(TurnKeys(r)) = 1
            /\ \A w \in WritesOf(r) :
                  w.by = "save_chat_history2" => w.path[3] \in TurnKeys(r)

\* C4, amended: a request with a non-empty query and a non-empty session_id
\* issues, while the store is available, exactly one turn-start push, and
\* does so before the agent is invoked; no request allocates more than one
\* turn key or writes to more than one turn record; a request with an empty
\* query or an empty session_id allocates none and writes no turn record;
\* the final write targets the key the turn-start write returned.
C4_OneTurnRecord ==
    \A r \in Requests :
        Started(r) =>
            LET m == frame[r].message
                turn == m.query # "" /\ m.session_id # ""
            IN /\ Cardinality(TurnPushes(r)) <= 1
               /\ Cardinality(TurnKeys(r)) <= 1
               /\ Cardinality(TurnRecords(r)) <= 1
               /\ (turn /\ firebase_manager.db) => Cardinality(TurnPushes(r)) = 1
               /\ ~turn => (TurnPushes(r) = {} /\ TurnRecords(r) = {}
                            /\ frame[r].key = None)
               /\ frame[r].pc \in {"get_session", "probe", "login", "call_tool"}
                     => RunsOf(r) = {}
               /\ frame[r].key # None => TurnKeys(r) = {frame[r].key}
               /\ \A w \in WritesOf(r) :
                     w.by = "save_chat_history2" =>
                         /\ frame[r].key # None
                         /\ w.path = ChatPath(m.user_id, m.session_id,
                                              frame[r].key)

\* a turn whose start write and final write both went through
C4_Witness ==
    \E r \in Requests :
        /\ Finished(r)
        /\ RunsOf(r) # {}
        /\ Cardinality(TurnKeys(r)) = 1
        /\ FieldsSet(r, "save_chat_history2") = ChatFields

\* C5: every write of a request after its turn key K was allocated (each
\* llm_thinking update, the final write) targets
\* users/{user_id}/chats/{session_id}/K; under any interleaving, also of
\* requests for the same (user_id, session_id), no write of one request
\* targets a key allocated to another.
C5_KeyStable ==
    /\ \A r \in Requests : Cardinality(TurnKeys(r)) <= 1
    /\ \A w \in writes :
          (w.op = "set" /\ w.by \in {"save_chat_history", "update_llm_thinking",
                                     "save_chat_history2"}) =>
              /\ w.path[1] = frame[w.req].message.user_id
              /\ w.path[2] = frame[w.req].message.session_id
              /\ w.path[3] \in TurnKeys(w.req)
              /\ \A q \in Requests \ {w.req} : w.path[3] \notin TurnKeys(q)

\* two requests for the same (user_id, session_id) both streamed thinking
\* and wrote their final record
C5_Witness ==
    \E r, q \in Requests :
        /\ r # q
        /\ frame[r].message.user_id = frame[q].message.user_id
        /\ frame[r].message.session_id = frame[q].message.session_id
        /\ \A x \in {r, q} :
              /\ FieldsSet(x, "update_llm_thinking") # {}
              /\ FieldsSet(x, "save_chat_history2") = ChatFields

\* C6, as claimed: the enriched prompt carries the rendering of the snapshot
\* fetched for the session whenever that snapshot is non-empty, and "No data
\* available" only when there is no data.
C6_Original ==
    \A r \in Requests :
        frame[r].enriched_query # NoPrompt =>
            LET snapshot == frame[r].financial_data
                rendered == frame[r].enriched_query.raw_financial_data
            IN /\ Truthy(snapshot) => rendered = JsonDumps(snapshot)
               /\ rendered = "No data available" => ~Truthy(snapshot)

\* the event stream of r was consumed to its end
StreamCompleted(r) ==
    /\ Finished(r)
    /\ frame[r].result.kind = "return"
    /\ frame[r].result.body.status # None
    /\ RunsOf(r) # {}

\* what C7 says of a completed turn of r
C7_Record(r) ==
    LET m == frame[r].message
        path == ChatPath(m.user_id, m.session_id, frame[r].key)
    IN /\ frame[r].session # PyNone
       /\ frame[r].session.id \in {s.id : s \in frame[r].session_service}
       /\ Returned(r)
       /\ RunsOf(r) # {}
       /\ frame[r].key # None
       /\ path \in DOMAIN store.chats
       /\ store.chats[path].query_user = m.query
       /\ store.chats[path].llm_response = frame[r].final_response_text
       /\ store.chats[path].timestamps = ServerTimestamp

\* C7, as claimed: for a request with non-empty query and session_id, when
\* the event stream completes the record at the turn's key has query_user =
\* the query, llm_response = the final answer and the timestamp marker.
C7_Original ==
    \A r \in Requests :
        (StreamCompleted(r) /\ frame[r].message.query # ""
                            /\ frame[r].message.session_id # "") => C7_Record(r)

\* C7, amended: ... when the event stream completes and every operation of
\* the turn-start write and of the final write succeeded, the record at the
\* turn's key has query_user = the query, llm_response = the final answer
\* and the timestamp marker; a session was created, a snapshot fetched and
\* the agent invoked.
C7_FinalRecord ==
    \A r \in Requests :
        (/\ StreamCompleted(r)
         /\ frame[r].message.query # ""
         /\ frame[r].message.session_id # ""
         /\ TurnKeys(r) # {}
         /\ FieldsSet(r, "save_chat_history") = ChatFields
         /\ FieldsSet(r, "save_chat_history2") = ChatFields) => C7_Record(r)

\* a completed turn with a final answer, written through
C7_Witness ==
    \E r \in Requests :
        /\ StreamCompleted(r)
        /\ frame[r].final_response_text # None
        /\ FieldsSet(r, "save_chat_history") = ChatFields
        /\ FieldsSet(r, "save_chat_history2") = ChatFields

\* C8, as claimed: a request ends with a status/message pair or with a
\* server error; a failed authentication, a failed session creation and an
\* error of the agent runtime end with the server error.
C8_Original ==
    \A r \in Requests :
        Finished(r) =>
            /\ \/ /\ frame[r].result.kind = "return"
                  /\ frame[r].result.body.status # None
                  /\ frame[r].result.body.message # None
               \/ frame[r].result.kind = "HTTPException"
            /\ ~BootstrapSucceeded(r) => frame[r].result.kind = "HTTPException"

\* C9, as claimed: every dataset call of a request carries the provider
\* session id derived from that request's session, after a login with that
\* request's phone number.
C9_Original ==
    \A h \in wire :
        h.kind = "call_tool" =>
            /\ h.mcp_session_id = "mcp-session-" \o frame[h.req].session.id
            /\ \E l \in SentBy(h.req, "login") :
                  /\ l.arg = frame[h.req].message.user_id
                  /\ l.mcp_session_id = h.mcp_session_id

\* C10, as claimed: a request that follows a completed request with the
\* same non-empty (user_id, session_id) finds the state that one created:
\* it creates no session and issues no dataset call.
C10_Original ==
    \A r \in Requests :
        \A q \in frame[r].after :
            (/\ frame[q].message.user_id = frame[r].message.user_id
             /\ frame[q].message.session_id = frame[r].message.session_id
             /\ frame[r].message.session_id # ""
             /\ Returned(q)) =>
                /\ SentBy(r, "call_tool") = {}
                /\ frame[r].session_service = {}

\* C11, as claimed: when the event stream of a request was consumed and the
\* store is available, users/{user_id} holds the aggregate state of the
\* session the turn used: raw_data equal to the snapshot fetched for the
\* session, behavioral_summary, current_financial_goals and agent_persona.
C11_Original ==
    \A r \in Requests :
        (StreamCompleted(r) /\ firebase_manager.db) =>
            LET user_id == frame[r].message.user_id
                state == frame[r].session.state
            IN /\ \A k \in {"raw_data", "behavioral_summary",
                            "current_financial_goals", "agent_persona"} :
                      <<user_id, k>> \in DOMAIN store.users
               /\ store.users[<<user_id, "raw_data">>] = frame[r].financial_data
               /\ store.users[<<user_id, "behavioral_summary">>]
                     = state["behavioral_summary"]
               /\ store.users[<<user_id, "current_financial_goals">>]
                     = state["current_financial_goals"]
               /\ store.users[<<user_id, "agent_persona">>]
                     = state["agent_persona"]

\* the result of a finished request as its message, the session service, the
\* provider's answers and the agent's events decide it; no store operation
\* and no state of the store enters it
Outcome(f) ==
    IF f.session = PyNone
    THEN HTTPException("500: Session could not be Created!")
    ELSE IF f.probe_status \notin {None, "login_required"}
    THEN HTTPException("Authentication flow error")
    ELSE IF f.login_status \notin {0, 200}
    THEN HTTPException("Login failed: " \o ToString(f.login_status))
    ELSE IF f.message.query = "" /\ f.message.session_id = ""
    THEN Return(Body("success", "New session created.", f.session.id))
    ELSE IF f.run_raised
    THEN Return(NoBody)
    ELSE IF f.final_response_text # None
    THEN Return(Body("success", "Message added successfully.", None))
    ELSE Return(Body("error", "I apologize, but I couldn't generate insights at the moment.", None))

\* C12: whether the store is initialised or not, and whichever operations of
\* save_chat_history, update_llm_thinking, save_chat_history2,
\* save_financial_state and save_new_session fail, a request ends with the
\* result its message, the provider's answers and the agent's events decide
\* (the result it has when every write succeeds), and never with a server
\* error caused by a store operation.
C12_PersistenceTransparent ==
    \A r \in Requests :
        /\ Finished(r) =>
              /\ frame[r].result = Outcome(frame[r])
              /\ frame[r].result.kind = "HTTPException" =>
                    /\ frame[r].result.detail # StoreError
                    /\ ~BootstrapSucceeded(r)

\* a turn ended with its success result although an operation of its final
\* write failed
C12_Witness ==
    \E r \in Requests :
        /\ Finished(r)
        /\ frame[r].result = Return(Body("success",
                                         "Message added successfully.", None))
        /\ \E w \in WritesOf(r) : ~w.ok /\ w.by = "save_chat_history2"

\* r consumed an event in this step; the event is frame'[r].event
Consumed(r) == frame'[r].events = frame[r].events + 1

\* the trimmed text of an event's first part, "" when it has none
FirstText(event) ==
    IF event.parts # <<>> /\ event.parts[1].has_text
    THEN Str(Strip(event.parts[1].text))
    ELSE ""

\* C13, as claimed: the final answer is None until an event marked final is
\* consumed, an event marked final makes its text the final answer, and an
\* event not marked final leaves the final answer as it is: the answer is
\* the text of the last event marked final, None exactly when there was none.
C13_Original ==
    /\ [](\A r \in Requests :
             frame[r].events = 0 => frame[r].final_response_text = None)
    /\ [][\A r \in Requests :
             Consumed(r) =>
                 frame'[r].final_response_text =
                     IF frame'[r].event.is_final
                     THEN FirstText(frame'[r].event)
                     ELSE frame[r].final_response_text]_vars

\* C13, amended: the final answer is None until an event marked final whose
\* first part has text that is not blank is consumed; such an event makes
\* the trimmed text of its first part the final answer; any other event
\* (not marked final, or without parts, or with a first part without text or
\* with blank text) leaves the final answer as it is.
C13_LastFinalText ==
    /\ [](\A r \in Requests :
             frame[r].events = 0 => frame[r].final_response_text = None)
    /\ [][\A r \in Requests :
             Consumed(r) =>
                 frame'[r].final_response_text =
                     IF frame'[r].event.is_final
                        /\ FirstText(frame'[r].event) # ""
                     THEN FirstText(frame'[r].event)
                     ELSE frame[r].final_response_text]_vars

\* after an event that gave the answer "a", an event marked final whose first
\* part has no text or blank text was consumed, and the answer is still "a"
C13_Witness ==
    \E r \in Requests :
        /\ frame[r].events = 2
        /\ frame[r].event.is_final
        /\ FirstText(frame[r].event) = ""
        /\ frame[r].final_response_text = "a"

\* a part that carries text other than blanks
NonBlank(part) ==
    part.has_text /\ \E i \in DOMAIN part.text : part.text[i] \notin Whitespace

\* the trimmed texts of the non-blank parts of an event, in order
RECURSIVE ThinkingOf(_)
ThinkingOf(parts) ==
    IF parts = <<>> THEN <<>>
    ELSE (IF NonBlank(Head(parts)) THEN <<Str(Strip(Head(parts).text))>>
          ELSE <<>>) \o ThinkingOf(Tail(parts))

\* the llm_thinking updates r issued
ThinkingOps(r) ==
    {w \in WritesOf(r) : w.by = "update_llm_thinking"}

\* C14: each event consumed appends the trimmed texts of its non-blank text
\* parts, in order, to the accumulated trace and nothing else; a request
\* that holds a turn key has issued one llm_thinking write per non-blank
\* part consumed, the k-th value being the newline-join of the first k
\* entries of the trace (so each value extends the one before), all to the
\* field llm_thinking of the turn's record; a request without a turn key
\* has issued none.
C14_ThinkingWrites ==
    /\ [](\A r \in Requests :
             LET f == frame[r]
                 n == Len(f.accumulated_thinking)
             IN IF f.key # None
                THEN /\ Len(f.thinking_writes) = n
                     /\ \A k \in 1..n :
                           f.thinking_writes[k] =
                               Join(SubSeq(f.accumulated_thinking, 1, k))
                     /\ \A w \in ThinkingOps(r) :
                           /\ w.op = "set" /\ w.field = "llm_thinking"
                           /\ w.path = ChatPath(f.message.user_id,
                                                f.message.session_id, f.key)
                     /\ n > 0 => ThinkingOps(r) # {}
                ELSE f.thinking_writes = <<>> /\ ThinkingOps(r) = {})
    /\ [][\A r \in Requests :
             Consumed(r) =>
                 /\ frame'[r].accumulated_thinking =
                       frame[r].accumulated_thinking
                           \o ThinkingOf(frame'[r].event.parts)
                 /\ frame'[r].key = frame[r].key
                 /\ Len(frame'[r].thinking_writes)
                       - Len(frame[r].thinking_writes) =
                          IF frame[r].key # None
                          THEN Len(ThinkingOf(frame'[r].event.parts))
                          ELSE 0]_vars

\* a request holding a key wrote "a" and then "a\nb", the second for a part
\* whose text needed trimming
C14_Witness ==
    \E r \in Requests :
        /\ frame[r].key # None
        /\ frame[r].thinking_writes = <<"a", "a\nb">>
        /\ frame[r].event.parts # <<>>
        /\ frame[r].event.parts[Len(frame[r].event.parts)].text = <<" ", "b", " ">>

\* the requests that returned before r started and had created the session
\* r names: a session of r's user_id whose id is r's session_id
Existing(r) ==
    {q \in frame[r].after :
        /\ frame[q].result.kind = "return"
        /\ frame[q].session # PyNone
        /\ frame[q].session.user_id = frame[r].message.user_id
        /\ frame[q].session.id = frame[r].message.session_id}

\* C15, as claimed: a request for a (user_id, session_id) whose session
\* exists goes directly to Ready: it sends no probe, no login and no dataset
\* call, uses the existing session, and goes on to the agent without
\* failing.
C15_Original ==
    \A r \in Requests :
        (Existing(r) # {} /\ frame[r].pc \notin {"idle", "get_session"}) =>
            /\ SentBy(r, "probe") = {}
            /\ SentBy(r, "login") = {}
            /\ SentBy(r, "call_tool") = {}
            /\ frame[r].session # PyNone
            /\ frame[r].session.id = frame[r].message.session_id
            /\ RunsOf(r) # {}
            /\ frame[r].result.kind # "HTTPException"

\* authenticate raised for r: its probe was not answered with login_required
\* or its login with 200
AuthFailed(r) ==
    \/ frame[r].probe_status \notin {None, "login_required"}
    \/ frame[r].login_status \notin {0, 200}

\* C16: when the probe of a request does not report login_required or its
\* login is answered with another status than 200, the request makes none
\* of the seven dataset calls, does not invoke runner.run_async, and ends
\* with the server error (status 500) whose detail is the description of the
\* authentication failure.
C16_AuthAborts ==
    \A r \in Requests :
        AuthFailed(r) =>
            /\ frame[r].calls = <<>>
            /\ SentBy(r, "call_tool") = {}
            /\ frame[r].financial_data = Unbound
            /\ RunsOf(r) = {}
            /\ Finished(r)
            /\ frame[r].result =
                  HTTPException(
                      IF frame[r].probe_status \notin {None, "login_required"}
                      THEN "Authentication flow error"
                      ELSE "Login failed: " \o ToString(frame[r].login_status))

\* a request whose login was rejected ended with the server error
C16_Witness ==
    \E r \in Requests :
        /\ frame[r].login_status = 401
        /\ frame[r].result.kind = "HTTPException"
        /\ frame[r].result.status_code = 500

\* the enumerated order of the seven datasets
EnumeratedOrder ==
    <<"fetch_net_worth", "fetch_credit_report", "fetch_epf_details",
      "fetch_mutual_funds", "fetch_mf_transactions",
      "fetch_bank_transactions", "fetch_stock_transactions">>

\* the dataset calls made so far by r are the first calls of the enumerated
\* order, one each, and each was sent to the provider
InOrder(calls, sent) ==
    /\ Len(calls) <= 7
    /\ \A i \in 1..Len(calls) : calls[i].tool_name = EnumeratedOrder[i]
    /\ {h.arg : h \in sent} = {calls[i].tool_name : i \in 1..Len(calls)}
    /\ Cardinality(sent) = Len(calls)

\* C17: the dataset calls of a snapshot build are made one at a time in the
\* enumerated order, each once, a call that failed being followed by the
\* next one like a call that succeeded; the build returns after the seventh;
\* a dataset call is sent only while the client's authenticated flag is
\* true.
C17_SequentialCalls ==
    /\ [](\A r \in Requests :
             /\ InOrder(frame[r].calls, SentBy(r, "call_tool"))
             /\ Returned(r) => Len(frame[r].calls) = 7
             /\ frame[r].calls # <<>> => mcp_client.authenticated)
    /\ [][\A r \in Requests :
             /\ \/ frame'[r].calls = frame[r].calls
                \/ /\ Len(frame'[r].calls) = Len(frame[r].calls) + 1
                   /\ SubSeq(frame'[r].calls, 1, Len(frame[r].calls))
                         = frame[r].calls
             /\ \A h \in wire' \ wire :
                   h.kind = "call_tool" =>
                       /\ mcp_client.authenticated
                       /\ wire' \ wire = {h}
                       /\ h.req = r => Len(frame'[r].calls)
                                           = Len(frame[r].calls) + 1]_vars

\* a snapshot was returned after a call in the middle failed and the calls
\* after it succeeded
C17_Witness ==
    \E r \in Requests :
        /\ Returned(r)
        /\ Len(frame[r].calls) = 7
        /\ frame[r].calls[3].raised
        /\ ~frame[r].calls[4].raised
        /\ ~frame[r].calls[7].raised

\* C18, as claimed: once the client's authenticated flag is true it stays
\* true, and no probe and no login is sent from then on, whatever requests
\* share the client and however they interleave.
C18_Original ==
    [][mcp_client.authenticated =>
          /\ mcp_client'.authenticated
          /\ \A h \in wire' \ wire : h.kind \notin {"probe", "login"}]_vars

\* C19: a request whose query and session_id are not both empty and whose
\* bootstrap succeeded (session created, client authenticated, snapshot
\* returned) has built the enriched prompt and invoked runner.run_async
\* once, with that prompt, its user_id and the id of its session; before the
\* snapshot is returned it has not invoked it; a request with an empty query
\* or an empty session_id does so without a turn record.
C19_AgentInvokedOnce ==
    \A r \in Requests :
        LET m == frame[r].message
        IN (Started(r) /\ ~(m.query = "" /\ m.session_id = "")) =>
              /\ Returned(r) =>
                    /\ frame[r].enriched_query # NoPrompt
                    /\ frame[r].enriched_query.user_query = m.query
                    /\ RunsOf(r) = {Run(r, m.user_id, frame[r].session.id,
                                        frame[r].enriched_query)}
                    /\ Cardinality(RunsOf(r)) = 1
              /\ ~Returned(r) => RunsOf(r) = {}
              /\ (m.query = "" \/ m.session_id = "") =>
                    TurnPushes(r) = {} /\ TurnRecords(r) = {}

\* the agent was invoked for an empty query under a session_id, and for a
\* query without a session_id, while the store was available
C19_Witness ==
    \E r, q \in Requests :
        /\ frame[r].message.query = "" /\ frame[r].message.session_id # ""
        /\ frame[q].message.query # "" /\ frame[q].message.session_id = ""
        /\ RunsOf(r) # {} /\ RunsOf(q) # {}
        /\ firebase_manager.db

\* the llm_thinking field of the turn record of r
ThinkingAt(r) ==
    LET path == ChatPath(frame[r].message.user_id,
                         frame[r].message.session_id, frame[r].key)
    IN IF path \in DOMAIN store.chats
       THEN store.chats[path].llm_thinking ELSE Absent

\* no operation of the turn-start write or of the final write of r names
\* llm_thinking
StartAndFinalSpareThinking(r) ==
    \A w \in WritesOf(r) :
        w.by \in {"save_chat_history", "save_chat_history2"} =>
            w.field # "llm_thinking"

\* C20, as claimed: neither the turn-start write nor the final write sets
\* llm_thinking, so once the turn has completed llm_thinking holds the last
\* value pushed while streaming, which is the full accumulated trace.
C20_Original ==
    \A r \in Requests :
        /\ StartAndFinalSpareThinking(r)
        /\ (StreamCompleted(r) /\ frame[r].key # None
                               /\ frame[r].thinking_writes # <<>>) =>
              /\ ThinkingAt(r) =
                    frame[r].thinking_writes[Len(frame[r].thinking_writes)]
              /\ ThinkingAt(r) = Join(frame[r].accumulated_thinking)

\* C20, amended: neither the turn-start write nor the final write sets
\* llm_thinking; the step that makes the final write leaves the llm_thinking
\* of every record as it was, so once the turn has completed llm_thinking
\* holds the last value an update wrote successfully while streaming: the
\* full accumulated trace when every update succeeded, an earlier value of
\* the trace or nothing when updates failed, and nothing when no update was
\* issued.
C20_ThinkingKept ==
    /\ [](\A r \in Requests :
             /\ StartAndFinalSpareThinking(r)
             /\ frame[r].key # None =>
                   LET tw == frame[r].thinking_writes
                   IN /\ ThinkingAt(r) \in
                            {Absent} \cup {tw[k] : k \in 1..Len(tw)}
                      /\ tw = <<>> => ThinkingAt(r) = Absent
                      /\ (tw # <<>> /\ \A w \in ThinkingOps(r) : w.ok) =>
                            /\ ThinkingAt(r) = tw[Len(tw)]
                            /\ ThinkingAt(r) =
                                  Join(frame[r].accumulated_thinking))
    /\ [][\A r \in Requests :
             (frame[r].pc = "stream" /\ frame'[r].pc = "done") =>
                 \A path \in DOMAIN store.chats :
                     /\ path \in DOMAIN store'.chats
                     /\ store'.chats[path].llm_thinking
                           = store.chats[path].llm_thinking]_vars

\* a turn completed whose final write set its three fields and whose
\* llm_thinking still holds the two-line trace written while streaming
C20_Witness ==
    \E r \in Requests :
        /\ StreamCompleted(r)
        /\ frame[r].key # None
        /\ FieldsSet(r, "save_chat_history2") = ChatFields
        /\ Len(frame[r].accumulated_thinking) = 2
        /\ ThinkingAt(r) = Join(frame[r].accumulated_thinking)

\* C21, as claimed: a request uses one session identifier throughout: the
\* session created during its bootstrap is stored under the caller's
\* (user_id, session_id), and the id passed to runner.run_async and the id
\* the provider session id is derived from are the session_id under which
\* the turn record and its thinking updates are written.
C21_Original ==
    \A r \in Requests :
        LET m == frame[r].message
        IN Started(r) =>
              /\ frame[r].session # PyNone =>
                    /\ frame[r].session.user_id = m.user_id
                    /\ frame[r].session.id = m.session_id
              /\ \A run \in RunsOf(r) : run.session_id = m.session_id
              /\ \A h \in wire :
                    h.req = r => h.mcp_session_id = McpSessionId(m.session_id)
              /\ \A w \in WritesOf(r) :
                    w.by \in {"save_chat_history", "update_llm_thinking",
                              "save_chat_history2"} =>
                        w.path[2] = m.session_id

====
